---- MODULE Spec2Model ----
(***************************************************************************)
(* Model of the Kubernetes documentation tool server:                      *)
(*   src/run_server.py                     tool registry, /tool dispatch   *)
(*   src/tools/kubernetes/documentation.py fetch cache, HTML normalizer,   *)
(*                                         pagination, the three tools     *)
(*                                                                         *)
(* Python str values that the code inspects character by character (URLs,  *)
(* page bodies, Markdown text, cache file names) are sequences of          *)
(* one-character strings.  Messages and tool names, which the code only    *)
(* formats and compares, are TLA+ strings.  Python values whose type the   *)
(* code depends on are tagged records: PyNone, PyInt(n), PyStr(s),         *)
(* PyDict(d).                                                              *)
(***************************************************************************)
EXTENDS Integers, Sequences, FiniteSets, TLC

(***************************************************************************)
(* Bounds of the model.                                                    *)
(***************************************************************************)
\* longest batch a /tool request carries
MaxBatch == 2
\* largest start_index / max_length tried by the pagination calls
MaxIndex == 6
\* most negative start_index / max_length tried, as a distance below zero
NegIndex == 2
\* number of direct fetch_url calls in a run
MaxFetches == 2
\* most HTTP requests answered in a run of the HTTP surface
MaxRequests == 1

(***************************************************************************)
(* Characters and strings.                                                 *)
(***************************************************************************)
Min(a, b) == IF a <= b THEN a ELSE b
Max(a, b) == IF a >= b THEN a ELSE b

Letters == {"a", "b", "c", "d", "e", "f", "g", "h", "i", "j", "k", "l", "m",
            "n", "o", "p", "q", "r", "s", "t", "u", "v", "w", "x", "y", "z",
            "A", "B", "C", "D", "E", "F", "G", "H", "I", "J", "K", "L", "M",
            "N", "O", "P", "Q", "R", "S", "T", "U", "V", "W", "X", "Y", "Z"}
Digits == {"0", "1", "2", "3", "4", "5", "6", "7", "8", "9"}
\* the characters the regular expression class \w matches
WordChars == Letters \cup Digits \cup {"_"}

\* the Python str with these characters, as a message
RECURSIVE Text(_)
Text(s) == IF s = <<>> THEN "" ELSE s[1] \o Text(Tail(s))

\* str.startswith(prefix)
StartsWith(s, p) == Len(p) <= Len(s) /\ SubSeq(s, 1, Len(p)) = p

\* str.startswith((p1, p2))
StartsWithAny(s, ps) == \E p \in ps : StartsWith(s, p)

\* str.find(p, from): the least index >= from where p occurs in s, 0 if none
RECURSIVE Find(_, _, _)
Find(s, p, from) ==
    IF from + Len(p) - 1 > Len(s) THEN 0
    ELSE IF SubSeq(s, from, from + Len(p) - 1) = p THEN from
    ELSE Find(s, p, from + 1)

\* str.replace(old, new), old non-empty
RECURSIVE Replace(_, _, _)
Replace(s, old, new) ==
    LET i == Find(s, old, 1)
    IN  IF i = 0 THEN s
        ELSE SubSeq(s, 1, i - 1) \o new
             \o Replace(SubSeq(s, i + Len(old), Len(s)), old, new)

\* s[a:b] of Python: negative indices count from the end, both are clamped
PyIndex(n, i) == IF i < 0 THEN Max(n + i, 0) ELSE Min(i, n)
PySlice(s, a, b) ==
    LET lo == PyIndex(Len(s), a)
        hi == PyIndex(Len(s), b)
    IN  IF lo < hi THEN SubSeq(s, lo + 1, hi) ELSE <<>>

\* str.split('/')[-1]: what follows the last "/"
RECURSIVE LastSegment(_)
LastSegment(s) ==
    LET i == Find(s, <<"/">>, 1)
    IN  IF i = 0 THEN s ELSE LastSegment(SubSeq(s, i + 1, Len(s)))

(***************************************************************************)
(* Python values.                                                          *)
(***************************************************************************)
PyNone == [t |-> "None"]
PyInt(n) == [t |-> "int", v |-> n]
PyStr(s) == [t |-> "str", v |-> s]
PyDict(d) == [t |-> "dict", v |-> d]

(***************************************************************************)
(* Regular expressions of html_to_markdown.  A pattern is a sequence of    *)
(* elements: a literal character, a greedy [^c]* and a lazy .*? (DOTALL);  *)
(* cap > 0 makes the element capture group number cap.  ReMatch follows    *)
(* the backtracking order of Python's re: greedy longest first, lazy       *)
(* shortest first, and returns the first match found at position i.        *)
(***************************************************************************)
Lit(c) == [k |-> "lit", c |-> c, cap |-> 0]
NotStar(c, cap) == [k |-> "notstar", c |-> c, cap |-> cap]
Lazy(cap) == [k |-> "lazy", c |-> "", cap |-> cap]
Lits(s) == [i \in 1..Len(s) |-> Lit(s[i])]

NoMatch == [ok |-> FALSE, end |-> 0, g1 |-> <<>>, g2 |-> <<>>]

\* length of the longest run of characters other than c that starts at s[i]
RECURSIVE RunNot(_, _, _)
RunNot(s, c, i) ==
    IF i > Len(s) \/ s[i] = c THEN 0 ELSE 1 + RunNot(s, c, i + 1)

SetGroup(m, cap, text) ==
    IF cap = 1 THEN [m EXCEPT !.g1 = text]
    ELSE IF cap = 2 THEN [m EXCEPT !.g2 = text]
    ELSE m

RECURSIVE ReMatch(_, _, _, _)
RECURSIVE ReTry(_, _, _, _, _, _)
\* match pat[p..] against s from position i; end is the first unmatched index
ReMatch(pat, s, p, i) ==
    IF p > Len(pat) THEN [ok |-> TRUE, end |-> i, g1 |-> <<>>, g2 |-> <<>>]
    ELSE LET e == pat[p]
         IN  IF e.k = "lit"
             THEN IF i <= Len(s) /\ s[i] = e.c
                  THEN ReMatch(pat, s, p + 1, i + 1)
                  ELSE NoMatch
             ELSE IF e.k = "notstar"
             THEN ReTry(pat, s, p, i, RunNot(s, e.c, i), -1)
             ELSE ReTry(pat, s, p, i, 0, 1)

\* element p takes n characters; on failure try n + step (greedy counts down
\* to 0, lazy counts up to the end of s)
ReTry(pat, s, p, i, n, step) ==
    IF n < 0 \/ i + n > Len(s) + 1 THEN NoMatch
    ELSE LET m == ReMatch(pat, s, p + 1, i + n)
         IN  IF m.ok
             THEN SetGroup(m, pat[p].cap, SubSeq(s, i, i + n - 1))
             ELSE ReTry(pat, s, p, i, n + step, step)

\* re.sub(pat, pre \g<a> mid \g<b> post, s): leftmost non-overlapping matches
Group(m, g) == IF g = 1 THEN m.g1 ELSE IF g = 2 THEN m.g2 ELSE <<>>
Expand(r, m) == r.pre \o Group(m, r.a) \o r.mid \o Group(m, r.b) \o r.post
Repl(pre, a, mid, b, post) ==
    [pre |-> pre, a |-> a, mid |-> mid, b |-> b, post |-> post]

RECURSIVE ReSubFrom(_, _, _, _)
ReSubFrom(pat, r, s, i) ==
    IF i > Len(s) THEN <<>>
    ELSE LET m == ReMatch(pat, s, 1, i)
         IN  IF m.ok /\ m.end > i
             THEN Expand(r, m) \o ReSubFrom(pat, r, s, m.end)
             ELSE <<s[i]>> \o ReSubFrom(pat, r, s, i + 1)
ReSub(pat, r, s) == ReSubFrom(pat, r, s, 1)

(***************************************************************************)
(* HTML normalizer.  BeautifulSoup is modelled on the documents the model  *)
(* feeds it: tags carry no attributes except the href of an anchor,        *)
(* elements of one name do not nest, and text holds no bare "<", ">" or    *)
(* "&" (only the entities &lt; &gt; &amp;).  On such a document str(soup)  *)
(* gives the markup back, with the void element <br> written <br/>.        *)
(***************************************************************************)
OpenTag(name) == <<"<">> \o name \o <<">">>
CloseTag(name) == <<"<", "/">> \o name \o <<">">>

\* elem.decompose() for every element soup.select(name) finds
RECURSIVE Decompose(_, _)
Decompose(s, name) ==
    LET i == Find(s, OpenTag(name), 1)
    IN  IF i = 0 THEN s
        ELSE LET k == Find(s, CloseTag(name), i + Len(OpenTag(name)))
             IN  IF k = 0 THEN SubSeq(s, 1, i - 1)
                 ELSE SubSeq(s, 1, i - 1)
                      \o Decompose(SubSeq(s, k + Len(CloseTag(name)), Len(s)), name)

\* soup.select_one(name): the first element of that name, <<>> when none
SelectOne(s, name) ==
    LET i == Find(s, OpenTag(name), 1)
    IN  IF i = 0 THEN <<>>
        ELSE LET k == Find(s, CloseTag(name), i + Len(OpenTag(name)))
             IN  IF k = 0 THEN SubSeq(s, i, Len(s)) \o CloseTag(name)
                 ELSE SubSeq(s, i, k + Len(CloseTag(name)) - 1)

\* str(element)
Serialize(s) == Replace(s, <<"<", "b", "r", ">">>, <<"<", "b", "r", "/", ">">>)

\* <name[^>]*>(.*?)</name>
ElemPat(name) ==
    Lits(<<"<">> \o name) \o <<NotStar(">", 0), Lit(">"), Lazy(1)>>
    \o Lits(CloseTag(name))
\* prefix[^>]*>
TagPat(prefix) == Lits(prefix) \o <<NotStar(">", 0), Lit(">")>>
\* <a[^>]*href="([^"]*)"[^>]*>(.*?)</a>
LinkPat ==
    Lits(<<"<", "a">>) \o <<NotStar(">", 0)>>
    \o Lits(<<"h", "r", "e", "f", "=", "\"">>)
    \o <<NotStar("\"", 1), Lit("\""), NotStar(">", 0), Lit(">"), Lazy(2)>>
    \o Lits(CloseTag(<<"a">>))
\* <pre[^>]*><code[^>]*>(.*?)</code></pre>
PreCodePat ==
    Lits(<<"<", "p", "r", "e">>) \o <<NotStar(">", 0), Lit(">")>>
    \o Lits(<<"<", "c", "o", "d", "e">>) \o <<NotStar(">", 0), Lit(">"), Lazy(1)>>
    \o Lits(CloseTag(<<"c", "o", "d", "e">>)) \o Lits(CloseTag(<<"p", "r", "e">>))

\* pre \1 post
Wrap(pre, post) == Repl(pre, 1, <<>>, 0, post)
\* the grave accent, which a TLA+ string cannot hold
Backtick == "BACKTICK"
NL == <<"\n">>
NL2 == <<"\n", "\n">>

\* '#' * i
Hashes(i) == [j \in 1..i |-> "#"]
\* re.sub('<h{i}[^>]*>(.*?)</h{i}>', '#' * i + ' \1\n\n', s)
Heading(s, i, digit) ==
    ReSub(ElemPat(<<"h", digit>>), Wrap(Hashes(i) \o <<" ">>, NL2), s)
\* for i in range(6, 0, -1)
Headings(s) ==
    Heading(Heading(Heading(Heading(Heading(Heading(s, 6, "6"), 5, "5"),
                                    4, "4"), 3, "3"), 2, "2"), 1, "1")

\* length of the run of c that starts at s[i]
RECURSIVE RunOf(_, _, _)
RunOf(s, c, i) ==
    IF i > Len(s) \/ s[i] # c THEN 0 ELSE 1 + RunOf(s, c, i + 1)

\* re.sub(r'\n{3,}', '\n\n', s)
RECURSIVE CollapseNewlines(_)
CollapseNewlines(s) ==
    IF s = <<>> THEN <<>>
    ELSE LET run == RunOf(s, "\n", 1)
         IN  IF run = 0 THEN <<s[1]>> \o CollapseNewlines(Tail(s))
             ELSE (IF run >= 3 THEN NL2 ELSE SubSeq(s, 1, run))
                  \o CollapseNewlines(SubSeq(s, run + 1, Len(s)))

html_to_markdown(html_content) ==
    LET soup == Decompose(Decompose(Decompose(Decompose(html_content,
                    <<"n", "a", "v">>), <<"f", "o", "o", "t", "e", "r">>),
                    <<"s", "c", "r", "i", "p", "t">>), <<"s", "t", "y", "l", "e">>)
        main == SelectOne(soup, <<"m", "a", "i", "n">>)
        article == SelectOne(soup, <<"a", "r", "t", "i", "c", "l", "e">>)
        body == SelectOne(soup, <<"b", "o", "d", "y">>)
        main_content == IF main # <<>> THEN main
                        ELSE IF article # <<>> THEN article
                        ELSE IF body # <<>> THEN body ELSE soup
        m0 == Serialize(main_content)
        m1 == Headings(m0)
        m2 == ReSub(ElemPat(<<"p">>), Wrap(<<>>, NL2), m1)
        m3 == ReSub(LinkPat, Repl(<<"[">>, 2, <<"]", "(">>, 1, <<")">>), m2)
        m4 == ReSub(ElemPat(<<"u", "l">>), Wrap(<<>>, NL), m3)
        m5 == ReSub(ElemPat(<<"o", "l">>), Wrap(<<>>, NL), m4)
        m6 == ReSub(ElemPat(<<"l", "i">>), Wrap(<<"-", " ">>, NL), m5)
        m7 == ReSub(PreCodePat,
                    Wrap(<<Backtick, Backtick, Backtick, "\n">>,
                         <<"\n", Backtick, Backtick, Backtick, "\n", "\n">>), m6)
        m8 == ReSub(ElemPat(<<"c", "o", "d", "e">>), Wrap(<<Backtick>>, <<Backtick>>), m7)
        m9 == ReSub(ElemPat(<<"s", "t", "r", "o", "n", "g">>),
                    Wrap(<<"*", "*">>, <<"*", "*">>), m8)
        m10 == ReSub(ElemPat(<<"e", "m">>), Wrap(<<"*">>, <<"*">>), m9)
        m11 == ReSub(TagPat(<<"<", "b", "r">>), Repl(NL, 0, <<>>, 0, <<>>), m10)
        m12 == ReSub(TagPat(<<"<">>), Repl(<<>>, 0, <<>>, 0, <<>>), m11)
        m13 == Replace(Replace(Replace(m12, <<"&", "l", "t", ";">>, <<"<">>),
                               <<"&", "g", "t", ";">>, <<">">>),
                       <<"&", "a", "m", "p", ";">>, <<"&">>)
    IN  CollapseNewlines(m13)

(***************************************************************************)
(* The pages the documentation host may serve.                             *)
(***************************************************************************)
\* <title>T</title><p>ab</p>
PageTitled ==
    <<"<", "t", "i", "t", "l", "e", ">", "T", "<", "/", "t", "i", "t", "l", "e", ">",
      "<", "p", ">", "a", "b", "<", "/", "p", ">">>
\* <main><h1>x</h1></main>
PageMain ==
    <<"<", "m", "a", "i", "n", ">", "<", "h", "1", ">", "x",
      "<", "/", "h", "1", ">", "<", "/", "m", "a", "i", "n", ">">>
\* a\r\nb : a body with a Windows line ending
PageCRLF == <<"a", "\r", "\n", "b">>
\* <nav>n</nav><body>c<br>d</body>
PageNav ==
    <<"<", "n", "a", "v", ">", "n", "<", "/", "n", "a", "v", ">",
      "<", "b", "o", "d", "y", ">", "c", "<", "b", "r", ">", "d",
      "<", "/", "b", "o", "d", "y", ">">>
\* the empty body
PageEmpty == <<>>
Bodies == {PageTitled, PageMain, PageCRLF, PageNav, PageEmpty}

(***************************************************************************)
(* URLs.                                                                   *)
(***************************************************************************)
\* "https://kubernetes.io" and "http://kubernetes.io"
HttpsHost ==
    <<"h", "t", "t", "p", "s", ":", "/", "/", "k", "u", "b", "e", "r", "n",
      "e", "t", "e", "s", ".", "i", "o">>
HttpHost ==
    <<"h", "t", "t", "p", ":", "/", "/", "k", "u", "b", "e", "r", "n", "e",
      "t", "e", "s", ".", "i", "o">>
\* the prefixes fetch_url accepts
K8sPrefixes == {HttpsHost, HttpHost}
\* faulty variant: the host is checked, the /docs path is not
HostOnlyPrefixes == {HttpsHost, HttpHost}
\* the prefixes read_documentation and recommend accept
DocsPrefixes == {HttpsHost \o <<"/", "d", "o", "c", "s">>,
                 HttpHost \o <<"/", "d", "o", "c", "s">>}

\* https://kubernetes.io/docs/a/b
UrlPage == HttpsHost \o <<"/", "d", "o", "c", "s", "/", "a", "/", "b">>
\* https://kubernetes.io/docs/a-b : another page, with the file name of UrlPage
UrlDash == HttpsHost \o <<"/", "d", "o", "c", "s", "/", "a", "-", "b">>
\* http://kubernetes.io/docs/c/ : a page whose URL ends with a slash
UrlSlash == HttpHost \o <<"/", "d", "o", "c", "s", "/", "c", "/">>
\* https://kubernetes.io/blog : on the host, outside the documentation
UrlBlog == HttpsHost \o <<"/", "b", "l", "o", "g">>
\* https://kubernetes.io.evil.com/docs/x : another host whose name starts alike
UrlSpoof ==
    HttpsHost \o <<".", "e", "v", "i", "l", ".", "c", "o", "m",
                   "/", "d", "o", "c", "s", "/", "x">>
\* https://evil.io/docs/x
UrlEvil ==
    <<"h", "t", "t", "p", "s", ":", "/", "/", "e", "v", "i", "l", ".", "i",
      "o", "/", "d", "o", "c", "s", "/", "x">>
Urls == {UrlPage, UrlDash, UrlSlash, UrlBlog, UrlSpoof, UrlEvil}

(***************************************************************************)
(* Fetch cache.  The cache directory is a function from file path to the   *)
(* characters written to the file.  ensure_cache_dir creates the directory *)
(* before any file of it is opened.                                        *)
(***************************************************************************)
USE_CACHE == TRUE
CACHE_DIR ==
    <<"c", "a", "c", "h", "e", "/", "k", "8", "s", "_", "d", "o", "c", "s",
      "/">>

\* re.sub(r'[^\w]', '_', url)
SafeName(url) ==
    [i \in 1..Len(url) |-> IF url[i] \in WordChars THEN url[i] ELSE "_"]

get_cache_path(url) == CACHE_DIR \o SafeName(url) \o <<".", "h", "t", "m", "l">>

\* f.read() of a file opened in text mode: "\r\n" and "\r" are read as "\n"
ReadText(stored) == Replace(Replace(stored, <<"\r", "\n">>, NL), <<"\r">>, NL)

\* f.write(content) of a file opened in text mode where os.linesep is "\n"
WriteText(content) == content

\* what requests.get and raise_for_status can do
HttpError == "404 Client Error: Not Found"
ConnError == "Connection refused"
NetResponses ==
    {[ok |-> TRUE, text |-> b, msg |-> ""] : b \in Bodies}
    \cup {[ok |-> FALSE, text |-> <<>>, msg |-> m] : m \in {HttpError, ConnError}}

\* the outcome of a call: raised tells whether it raised, with message msg;
\* value is what it returned; files is the cache directory it leaves; net
\* lists the URLs it requested from the network
Returned(value, files, net) ==
    [raised |-> FALSE, value |-> value, msg |-> "", files |-> files, net |-> net]
Raised(msg, files, net) ==
    [raised |-> TRUE, value |-> <<>>, msg |-> msg, files |-> files, net |-> net]

InvalidDomainMsg(url) == "URL must be from kubernetes.io domain: " \o Text(url)

\* fetch_url(url) in cache directory files, resp being what the network answers
\* if asked
fetch_url(url, files, resp) ==
    IF ~StartsWithAny(url, K8sPrefixes)
    THEN Raised(InvalidDomainMsg(url), files, <<>>)
    ELSE IF USE_CACHE /\ get_cache_path(url) \in DOMAIN files
    THEN Returned(ReadText(files[get_cache_path(url)]), files, <<>>)
    ELSE IF ~resp.ok
    THEN Raised(resp.msg, files, <<url>>)
    ELSE Returned(resp.text,
                  IF USE_CACHE
                  THEN (get_cache_path(url) :> WriteText(resp.text)) @@ files
                  ELSE files,
                  <<url>>)

(***************************************************************************)
(* Tool: read_documentation.                                               *)
(***************************************************************************)
\* type(v).__name__
PyTypeName(v) == IF v.t = "None" THEN "NoneType" ELSE v.t

\* {"error": msg}
ErrorDict(msg) == PyDict([error |-> msg])
IsErrorDict(v) == v.t = "dict" /\ "error" \in DOMAIN v.v

DocsDomainMsg == "URL must be from kubernetes.io/docs domain"

\* the three entities html.parser decodes in the pages of the model
DecodeEntities(s) ==
    Replace(Replace(Replace(s, <<"&", "l", "t", ";">>, <<"<">>),
                    <<"&", "g", "t", ";">>, <<">">>),
            <<"&", "a", "m", "p", ";">>, <<"&">>)

\* soup.title.string if soup.title else url.split('/')[-1]
TitleOf(html_content, url) ==
    LET open == OpenTag(<<"t", "i", "t", "l", "e">>)
        close == CloseTag(<<"t", "i", "t", "l", "e">>)
        i == Find(html_content, open, 1)
        k == Find(html_content, close, i + Len(open))
        inner == SubSeq(html_content, i + Len(open),
                        IF k = 0 THEN Len(html_content) ELSE k - 1)
    IN  IF i = 0 THEN PyStr(LastSegment(url))
        ELSE IF inner = <<>> THEN PyNone
        ELSE PyStr(DecodeEntities(inner))

\* start_index + max_length, min(), the slice: a TypeError unless both are int
PaginationTypeError(start_index, max_length) ==
    "unsupported operand type(s) for +: '" \o PyTypeName(start_index)
    \o "' and '" \o PyTypeName(max_length) \o "'"

\* faulty variant: end_index is not clamped to the length of the text
PaginateUnclamped(title, url, md_content, start_index, max_length) ==
    LET total_length == Len(md_content)
        end_index == start_index + max_length
        truncated_content == PySlice(md_content, start_index, end_index)
    IN  PyDict([title |-> title,
                url |-> url,
                content |-> truncated_content,
                start_index |-> start_index,
                end_index |-> end_index,
                total_length |-> total_length,
                is_truncated |-> end_index < total_length])

\* faulty variant: end_index never falls below start_index
PaginateFromStart(title, url, md_content, start_index, max_length) ==
    LET total_length == Len(md_content)
        end_index == Max(start_index, Min(start_index + max_length, total_length))
        truncated_content == PySlice(md_content, start_index, end_index)
    IN  PyDict([title |-> title,
                url |-> url,
                content |-> truncated_content,
                start_index |-> start_index,
                end_index |-> end_index,
                total_length |-> total_length,
                is_truncated |-> end_index < total_length])

\* faulty variant: the window stops one character before end_index
PaginateShort(title, url, md_content, start_index, max_length) ==
    LET total_length == Len(md_content)
        end_index == Min(start_index + max_length, total_length)
        truncated_content == PySlice(md_content, start_index, end_index - 1)
    IN  PyDict([title |-> title,
                url |-> url,
                content |-> truncated_content,
                start_index |-> start_index,
                end_index |-> end_index,
                total_length |-> total_length,
                is_truncated |-> end_index < total_length])

\* lines 161-175: the window of md_content and its metadata
Paginate(title, url, md_content, start_index, max_length) ==
    LET total_length == Len(md_content)
        end_index == Min(start_index + max_length, total_length)
        truncated_content == PySlice(md_content, start_index, end_index)
    IN  PyDict([title |-> title,
                url |-> url,
                content |-> truncated_content,
                start_index |-> start_index,
                end_index |-> end_index,
                total_length |-> total_length,
                is_truncated |-> end_index < total_length])

\* the content fetch_url can return: a page as served, or as read back from
\* the cache file
Contents == Bodies \cup {ReadText(WriteText(b)) : b \in Bodies}

\* html_to_markdown on each content
MarkdownTable == [html_content \in Contents |-> html_to_markdown(html_content)]

\* read_documentation(url, max_length, start_index): never raises, every
\* exception of its body is returned as {"error": str(e)}.  md is the table
\* of html_to_markdown, which the model computes once (see markdown_of).
read_documentation(url, max_length, start_index, files, resp, md) ==
    IF url.t # "str"
    THEN Returned(ErrorDict("'" \o PyTypeName(url)
                            \o "' object has no attribute 'startswith'"),
                  files, <<>>)
    ELSE IF ~StartsWithAny(url.v, DocsPrefixes)
    THEN Returned(ErrorDict(DocsDomainMsg), files, <<>>)
    ELSE LET f == fetch_url(url.v, files, resp)
         IN  IF f.raised
             THEN Returned(ErrorDict(f.msg), f.files, f.net)
             ELSE IF start_index.t # "int" \/ max_length.t # "int"
             THEN Returned(ErrorDict(PaginationTypeError(start_index, max_length)),
                           f.files, f.net)
             ELSE Returned(Paginate(TitleOf(f.value, url.v), url.v,
                                    md[f.value],
                                    start_index.v, max_length.v),
                           f.files, f.net)

(***************************************************************************)
(* Tool: search_documentation.                                             *)
(***************************************************************************)
\* str.lower()
LowerChar(c) ==
    CASE c = "A" -> "a"
        [] c = "B" -> "b"
        [] c = "C" -> "c"
        [] c = "D" -> "d"
        [] c = "E" -> "e"
        [] c = "F" -> "f"
        [] c = "G" -> "g"
        [] c = "H" -> "h"
        [] c = "I" -> "i"
        [] c = "J" -> "j"
        [] c = "K" -> "k"
        [] c = "L" -> "l"
        [] c = "M" -> "m"
        [] c = "N" -> "n"
        [] c = "O" -> "o"
        [] c = "P" -> "p"
        [] c = "Q" -> "q"
        [] c = "R" -> "r"
        [] c = "S" -> "s"
        [] c = "T" -> "t"
        [] c = "U" -> "u"
        [] c = "V" -> "v"
        [] c = "W" -> "w"
        [] c = "X" -> "x"
        [] c = "Y" -> "y"
        [] c = "Z" -> "z"
        [] OTHER -> c
Lower(s) == [i \in 1..Len(s) |-> LowerChar(s[i])]

Whitespace == {" ", "\n", "\r", "\t"}

\* str.split(): the maximal runs of characters that are not whitespace
RECURSIVE SplitWords(_, _)
SplitWords(s, word) ==
    IF s = <<>> THEN (IF word = <<>> THEN <<>> ELSE <<word>>)
    ELSE IF s[1] \in Whitespace
    THEN (IF word = <<>> THEN <<>> ELSE <<word>>) \o SplitWords(Tail(s), <<>>)
    ELSE SplitWords(Tail(s), Append(word, s[1]))

\* the topics of the mock search (lines 216-227); chars spells the title
Topics ==
    <<
      [title |-> "Pods",
       chars |-> <<"P", "o", "d", "s">>,
       url |-> "https://kubernetes.io/docs/concepts/workloads/pods/"],
      [title |-> "Deployments",
       chars |-> <<"D", "e", "p", "l", "o", "y", "m", "e", "n", "t", "s">>,
       url |-> "https://kubernetes.io/docs/concepts/workloads/controllers/deployment/"],
      [title |-> "Services",
       chars |-> <<"S", "e", "r", "v", "i", "c", "e", "s">>,
       url |-> "https://kubernetes.io/docs/concepts/services-networking/service/"],
      [title |-> "ConfigMaps",
       chars |-> <<"C", "o", "n", "f", "i", "g", "M", "a", "p", "s">>,
       url |-> "https://kubernetes.io/docs/concepts/configuration/configmap/"],
      [title |-> "Secrets",
       chars |-> <<"S", "e", "c", "r", "e", "t", "s">>,
       url |-> "https://kubernetes.io/docs/concepts/configuration/secret/"],
      [title |-> "Volumes",
       chars |-> <<"V", "o", "l", "u", "m", "e", "s">>,
       url |-> "https://kubernetes.io/docs/concepts/storage/volumes/"],
      [title |-> "Namespaces",
       chars |-> <<"N", "a", "m", "e", "s", "p", "a", "c", "e", "s">>,
       url |-> "https://kubernetes.io/docs/concepts/overview/working-with-objects/namespaces/"],
      [title |-> "Kubectl Commands",
       chars |-> <<"K", "u", "b", "e", "c", "t", "l", " ", "C", "o", "m", "m", "a", "n", "d", "s">>,
       url |-> "https://kubernetes.io/docs/reference/kubectl/"],
      [title |-> "Kubernetes API",
       chars |-> <<"K", "u", "b", "e", "r", "n", "e", "t", "e", "s", " ", "A", "P", "I">>,
       url |-> "https://kubernetes.io/docs/reference/kubernetes-api/"],
      [title |-> "Cluster Architecture",
       chars |-> <<"C", "l", "u", "s", "t", "e", "r", " ", "A", "r", "c", "h", "i", "t", "e", "c", "t", "u", "r", "e">>,
       url |-> "https://kubernetes.io/docs/concepts/architecture/"]
    >>

SearchResult(topic) ==
    [title |-> topic.title, url |-> topic.url,
     excerpt |-> "Documentation about Kubernetes " \o topic.title]

\* lines 230-239: the topics whose lower-cased title holds a keyword
RECURSIVE MatchTopics(_, _)
MatchTopics(keywords, i) ==
    IF i > Len(Topics) THEN <<>>
    ELSE (IF \E j \in 1..Len(keywords) :
                Find(Lower(Topics[i].chars), keywords[j], 1) # 0
          THEN <<SearchResult(Topics[i])>> ELSE <<>>)
         \o MatchTopics(keywords, i + 1)

\* lines 247-252
DefaultResults ==
    <<[title |-> "Kubernetes Documentation",
       url |-> "https://kubernetes.io/docs/home/",
       excerpt |-> "Home page for Kubernetes documentation."],
      [title |-> "Kubernetes Concepts",
       url |-> "https://kubernetes.io/docs/concepts/",
       excerpt |-> "Overview of Kubernetes concepts and components."]>>

\* https://kubernetes.io/docs/search/
K8S_SEARCH_API_URL ==
    HttpsHost \o <<"/", "d", "o", "c", "s", "/", "s", "e", "a", "r", "c", "h", "/">>

\* f"{K8S_SEARCH_API_URL}?q={search_phrase}"
SearchUrl(search_phrase) ==
    K8S_SEARCH_API_URL \o <<"?", "q", "=">>
    \o (IF search_phrase.t = "str" THEN search_phrase.v ELSE <<"N", "o", "n", "e">>)

\* search_documentation(search_phrase, limit), for a phrase and a limit that
\* are a str and an int, or None.  The response of the search page is fetched
\* and not read: only a failure to connect raises.
search_documentation(search_phrase, limit, files, resp) ==
    LET net == <<SearchUrl(search_phrase)>>
    IN  IF ~resp.ok /\ resp.msg = ConnError
        THEN Returned(ErrorDict(resp.msg), files, net)
        ELSE IF search_phrase.t # "str"
        THEN Returned(ErrorDict("'" \o PyTypeName(search_phrase)
                                \o "' object has no attribute 'lower'"),
                      files, net)
        ELSE IF limit.t # "int"
        THEN Returned(ErrorDict("'>' not supported between instances of 'int' and '"
                                \o PyTypeName(limit) \o "'"),
                      files, net)
        ELSE LET found == MatchTopics(SplitWords(Lower(search_phrase.v), <<>>), 1)
                 limited == IF Len(found) > limit.v
                            THEN PySlice(found, 0, limit.v) ELSE found
                 results == IF limited = <<>> THEN DefaultResults ELSE limited
             IN  Returned(PyDict([query |-> search_phrase.v,
                                  results |-> results,
                                  total_results |-> Len(results)]),
                          files, net)

(***************************************************************************)
(* Tool: recommend.  Each recommended page is modelled by its title.       *)
(***************************************************************************)
\* str.split('/')[0]: what precedes the first "/"
FirstSegment(s) ==
    LET i == Find(s, <<"/">>, 1)
    IN  IF i = 0 THEN s ELSE SubSeq(s, 1, i - 1)

\* lines 295-317 and 324-328
SimilarPages(category) ==
    IF category = <<"c", "o", "n", "c", "e", "p", "t", "s">>
    THEN <<"Pods", "Deployments", "Services", "Storage">>
    ELSE IF category = <<"t", "a", "s", "k", "s">>
    THEN <<"Configure a Pod to Use a ConfigMap", "Configure a Pod to Use a Secret",
           "Use Port Forwarding">>
    ELSE IF category = <<"r", "e", "f", "e", "r", "e", "n", "c", "e">>
    THEN <<"Kubernetes API Reference", "kubectl Commands",
           "Well-Known Labels, Annotations and Taints">>
    ELSE IF category = <<"t", "u", "t", "o", "r", "i", "a", "l", "s">>
    THEN <<"Kubernetes Basics", "Stateless Application", "Stateful Application">>
    ELSE <<"Kubernetes Concepts", "Kubernetes Tasks", "Kubernetes Tutorials">>

\* recommend(url)
recommend(url, files) ==
    IF url.t # "str"
    THEN Returned(ErrorDict("'" \o PyTypeName(url)
                            \o "' object has no attribute 'startswith'"),
                  files, <<>>)
    ELSE IF ~StartsWithAny(url.v, DocsPrefixes)
    THEN Returned(ErrorDict(DocsDomainMsg), files, <<>>)
    ELSE LET path == Replace(url.v, HttpsHost \o <<"/", "d", "o", "c", "s", "/">>, <<>>)
         IN  Returned(PyDict(
                 [highly_rated |-> <<"Kubernetes Components", "Kubernetes API",
                                     "Working with kubectl">>,
                  new |-> <<"What's new in Kubernetes v1.28",
                            "Validating API Field Selectors", "Job API Updates">>,
                  similar |-> SimilarPages(FirstSegment(path)),
                  journey |-> <<"Kubernetes Troubleshooting",
                                "Kubernetes Best Practices", "Kubernetes Security">>]),
                 files, <<>>)

(***************************************************************************)
(* Tool registry and the call of a registered function.                    *)
(***************************************************************************)
\* run_server.py lines 45-47: tool name -> the function registered for it
tool_registry ==
    [k8s_read_documentation |-> "read_documentation",
     k8s_search_documentation |-> "search_documentation",
     k8s_recommend |-> "recommend"]

\* the parameters of each function, in order, and those without a default
Signature ==
    [read_documentation |->
        [params |-> <<"url", "max_length", "start_index">>, required |-> <<"url">>],
     search_documentation |->
        [params |-> <<"search_phrase", "limit">>, required |-> <<"search_phrase">>],
     recommend |->
        [params |-> <<"url">>, required |-> <<"url">>]]

\* the defaults of the optional parameters
DEFAULT_MAX_LENGTH == 5000
DEFAULT_START_INDEX == 0
DEFAULT_LIMIT == 10

Range(f) == {f[x] : x \in DOMAIN f}

\* {param.name: param.value for param in tool_call.parameters}: the keys in
\* the order of their first occurrence, each with its last value
RECURSIVE DictKeys(_)
DictKeys(parameters) ==
    IF parameters = <<>> THEN <<>>
    ELSE LET front == SubSeq(parameters, 1, Len(parameters) - 1)
             last == parameters[Len(parameters)].name
         IN  IF \E j \in 1..Len(front) : front[j].name = last
             THEN DictKeys(front)
             ELSE Append(DictKeys(front), last)
DictHas(parameters, key) == \E j \in 1..Len(parameters) : parameters[j].name = key
DictGet(parameters, key, default) ==
    IF DictHas(parameters, key)
    THEN parameters[CHOOSE j \in 1..Len(parameters) :
                        /\ parameters[j].name = key
                        /\ \A l \in (j + 1)..Len(parameters) : parameters[l].name # key].value
    ELSE default

\* the first element of seq that is not in set, "" when there is none
RECURSIVE FirstNotIn(_, _)
FirstNotIn(seq, set) ==
    IF seq = <<>> THEN ""
    ELSE IF seq[1] \notin set THEN seq[1]
    ELSE FirstNotIn(Tail(seq), set)

\* tool_func(**params): Python binds the keyword arguments, raising TypeError
\* for a keyword the function does not have and then for a required parameter
\* that is missing, and runs the function
CallFunction(func, parameters, files, resp, md) ==
    LET sig == Signature[func]
        unexpected == FirstNotIn(DictKeys(parameters), Range(sig.params))
        missing == FirstNotIn(sig.required, Range(DictKeys(parameters)))
    IN  IF unexpected # ""
        THEN Raised(func \o "() got an unexpected keyword argument '"
                    \o unexpected \o "'", files, <<>>)
        ELSE IF missing # ""
        THEN Raised(func \o "() missing 1 required positional argument: '"
                    \o missing \o "'", files, <<>>)
        ELSE IF func = "read_documentation"
        THEN read_documentation(DictGet(parameters, "url", PyNone),
                 DictGet(parameters, "max_length", PyInt(DEFAULT_MAX_LENGTH)),
                 DictGet(parameters, "start_index", PyInt(DEFAULT_START_INDEX)),
                 files, resp, md)
        ELSE IF func = "search_documentation"
        THEN search_documentation(DictGet(parameters, "search_phrase", PyNone),
                 DictGet(parameters, "limit", PyInt(DEFAULT_LIMIT)), files, resp)
        ELSE recommend(DictGet(parameters, "url", PyNone), files)

(***************************************************************************)
(* POST /tool: handle_tool_call.                                           *)
(***************************************************************************)
\* ToolResponseItem(tool_name=..., output=..., error=...)
ToolResponseItem(tool_name, output, error) ==
    [tool_name |-> tool_name, output |-> output, error |-> error]

\* faulty variant: the message does not name the tool
NotFoundMsgBare(tool_name) == "Tool not found"
NotFoundMsg(tool_name) == "Tool '" \o tool_name \o "' not found"

\* lines 112-118: the item for a name that is not registered
NotFoundItem(tool_name) ==
    ToolResponseItem(tool_name, PyNone, PyStr(NotFoundMsg(tool_name)))
\* faulty variant: a returned value comes with an error string too
ResultItemWithError(tool_name, result) ==
    ToolResponseItem(tool_name, result, PyStr(""))
\* lines 125-128: the item for a call that returned
ResultItem(tool_name, result) == ToolResponseItem(tool_name, result, PyNone)
\* faulty variant: the exception message is replaced by a fixed text
ErrorItemGeneric(tool_name, msg) ==
    ToolResponseItem(tool_name, PyNone, PyStr("Internal error"))
\* lines 129-135: the item for a call that raised
ErrorItem(tool_name, msg) == ToolResponseItem(tool_name, PyNone, PyStr(msg))

\* one turn of the loop of lines 109-135 for tool_call: the item appended, the
\* cache directory left, the network requests made and whether a registered
\* function was called (and how it ended)
HandleCall(tool_call, files, resp, md) ==
    IF tool_call.name \notin DOMAIN tool_registry
    THEN [item |-> NotFoundItem(tool_call.name), files |-> files, net |-> <<>>,
          called |-> <<>>]
    ELSE LET r == CallFunction(tool_registry[tool_call.name],
                               tool_call.parameters, files, resp, md)
         IN  [item |-> IF r.raised THEN ErrorItem(tool_call.name, r.msg)
                       ELSE ResultItem(tool_call.name, r.value),
              files |-> r.files, net |-> r.net,
              called |-> <<[func |-> tool_registry[tool_call.name],
                            raised |-> r.raised, msg |-> r.msg,
                            value |-> IF r.raised THEN PyNone ELSE r.value]>>]

(***************************************************************************)
(* State.                                                                  *)
(***************************************************************************)
VARIABLES
    files,      \* the cache directory: file path -> characters written
    pc,         \* handle_tool_call: "idle", "dispatch" (in or after the loop),
                \* or "blocked" (inside a requests.get that never returns)
    request,    \* the tool_calls of the request being handled
    i,          \* position of the loop in request
    responses,  \* the responses list of handle_tool_call
    net,        \* the URLs requested from the network for this request
    invoked,    \* the registered functions called for this request, in order
    fetched,    \* the direct calls of fetch_url made so far, with their outcome
    reads,      \* the direct calls of read_documentation made so far
    markdown_of, \* html_to_markdown, a pure function, tabulated once in Init
    env,        \* the environment of the server: ENABLE_AUTH and API_KEY
    served,     \* the HTTP requests answered so far, with their outcome
    procs,      \* the fetch_url calls running side by side, each at its line
    received,   \* the <<url, body>> pairs the network has served to procs
    norm,       \* a text and the results of html_to_markdown applied to it
    paged       \* a paging client: the calls of read_documentation it has made

vars == <<files, pc, request, i, responses, net, invoked, fetched, reads,
          markdown_of, env, served, procs, received, norm, paged>>

\* the state of the endpoints and callers other than POST /tool, fetch_url
\* and read_documentation called one at a time
others == <<env, served, procs, received, norm, paged>>

\* os.getenv of a variable that is not set
Unset == PyNone
\* the two callers of fetch_url that may run side by side
Procs == {"p1", "p2"}
\* a caller that is not inside fetch_url
\* a caller that has not entered fetch_url.  pc is its line in fetch_url,
\* found what os.path.exists told it, content the response body it holds,
\* value what it returned, raised whether it raised instead, wrote whether
\* it has written the cache file, last whether it was the last to do so
IdleProc == [pc |-> "idle", url |-> <<>>, found |-> FALSE, content |-> <<>>,
             value |-> <<>>, raised |-> FALSE, wrote |-> FALSE, last |-> FALSE]

Init ==
    /\ files = <<>>
    /\ pc = "idle"
    /\ request = <<>>
    /\ i = 1
    /\ responses = <<>>
    /\ net = <<>>
    /\ invoked = <<>>
    /\ fetched = <<>>
    /\ reads = <<>>
    /\ markdown_of = MarkdownTable
    /\ env = [ENABLE_AUTH |-> Unset, API_KEY |-> Unset]
    /\ served = <<>>
    /\ procs = [p \in Procs |-> IdleProc]
    /\ received = {}
    /\ norm = <<>>
    /\ paged = 0

(***************************************************************************)
(* The requests a client sends.                                            *)
(***************************************************************************)
Param(name, value) == [name |-> name, value |-> value]
Call(name, parameters) == [name |-> name, parameters |-> parameters]

\* a page read with the default window
CallRead == Call("k8s_read_documentation", <<Param("url", PyStr(UrlPage))>>)
\* a page read with a window of its own
CallWindow ==
    Call("k8s_read_documentation",
         <<Param("url", PyStr(UrlDash)), Param("max_length", PyInt(2)),
           Param("start_index", PyInt(1))>>)
\* a URL outside the documentation
CallEvil == Call("k8s_read_documentation", <<Param("url", PyStr(UrlEvil))>>)
\* a parameter read_documentation does not accept
CallBogus ==
    Call("k8s_read_documentation",
         <<Param("url", PyStr(UrlPage)), Param("bogus", PyInt(1))>>)
\* the required parameter url is missing
CallNoUrl == Call("k8s_read_documentation", <<Param("max_length", PyNone)>>)
CallSearch ==
    Call("k8s_search_documentation",
         <<Param("search_phrase", PyStr(<<"P", "o", "d", "s", " ", "a", "p", "i">>)),
           Param("limit", PyInt(1))>>)
CallRecommend == Call("k8s_recommend", <<Param("url", PyStr(UrlSlash))>>)
\* a name that is not registered
CallUnknown == Call("no_such_tool", <<Param("url", PyStr(UrlPage))>>)

ToolCalls ==
    {CallRead, CallWindow, CallEvil, CallBogus, CallNoUrl, CallSearch,
     CallRecommend, CallUnknown}

Batches == UNION {[1..n -> ToolCalls] : n \in 0..MaxBatch}

(***************************************************************************)
(* POST /tool.  The handler awaits nothing, so the event loop runs one     *)
(* request at a time; each turn of its loop is one step.                   *)
(***************************************************************************)
\* line 107: a request arrives, responses = []
Receive ==
    /\ pc = "idle"
    /\ \E batch \in Batches : request' = batch
    /\ pc' = "dispatch"
    /\ i' = 1
    /\ responses' = <<>>
    /\ net' = <<>>
    /\ invoked' = <<>>
    /\ UNCHANGED <<files, fetched, reads, markdown_of, others>>

\* faulty variant: a call that raises ends the loop and leaves no item
DispatchAborting ==
    /\ pc = "dispatch"
    /\ i <= Len(request)
    /\ \E resp \in NetResponses :
          \E h \in {HandleCall(request[i], files, resp, markdown_of)} :
              /\ responses' = IF \E j \in 1..Len(h.called) : h.called[j].raised
                               THEN responses
                               ELSE Append(responses, h.item)
              /\ i' = IF \E j \in 1..Len(h.called) : h.called[j].raised
                       THEN Len(request) + 1
                       ELSE i + 1
              /\ files' = h.files
              /\ net' = net \o h.net
              /\ invoked' = invoked \o
                    [j \in 1..Len(h.called) |->
                        [index |-> i, func |-> h.called[j].func,
                         raised |-> h.called[j].raised, msg |-> h.called[j].msg,
                         value |-> h.called[j].value]]
    /\ UNCHANGED <<pc, request, fetched, reads, markdown_of, others>>

\* lines 109-135: one turn of the loop
DispatchCall ==
    /\ pc = "dispatch"
    /\ i <= Len(request)
    /\ \E resp \in NetResponses :
          \E h \in {HandleCall(request[i], files, resp, markdown_of)} :
              /\ responses' = Append(responses, h.item)
              /\ files' = h.files
              /\ net' = net \o h.net
              /\ invoked' = invoked \o
                    [j \in 1..Len(h.called) |->
                        [index |-> i, func |-> h.called[j].func,
                         raised |-> h.called[j].raised, msg |-> h.called[j].msg,
                         value |-> h.called[j].value]]
    /\ i' = i + 1
    /\ UNCHANGED <<pc, request, fetched, reads, markdown_of, others>>

\* the loop is over: responses is what line 137 returns
Finished == pc = "dispatch" /\ i > Len(request)

\* line 137: return ToolResponse(responses=responses); the request is over
Respond ==
    /\ Finished
    /\ pc' = "idle"
    /\ request' = <<>>
    /\ i' = 1
    /\ responses' = <<>>
    /\ net' = <<>>
    /\ invoked' = <<>>
    /\ UNCHANGED <<files, fetched, reads, markdown_of, others>>

Next == Receive \/ DispatchCall \/ Respond

Spec == Init /\ [][Next]_vars

(***************************************************************************)
(* POST /tool against a server that may never answer.  requests.get is     *)
(* called without a timeout (documentation.py lines 62 and 208), so a call *)
(* that reaches the network waits until the server answers.  The handler   *)
(* takes its next step whenever it can: weak fairness on the next step.    *)
(***************************************************************************)
\* the call at position i reaches requests.get and the server, having
\* accepted the connection, never answers: the handler stays in requests.get
AwaitServer ==
    /\ pc = "dispatch"
    /\ i <= Len(request)
    /\ \E resp \in NetResponses :
          HandleCall(request[i], files, resp, markdown_of).net # <<>>
    /\ pc' = "blocked"
    /\ UNCHANGED <<files, request, i, responses, net, invoked, fetched, reads,
                   markdown_of, others>>

NextLive == Receive \/ DispatchCall \/ AwaitServer \/ Respond

\* a turn of the loop, as seen on its position alone
LoopTurn == pc = "dispatch" /\ i <= Len(request) /\ i' = i + 1

\* the handler is synchronous: while it is in the loop and not inside a
\* network call, the loop advances, and once the loop is over it returns
SpecLive == Init /\ [][NextLive]_vars /\ WF_i(LoopTurn) /\ WF_vars(Respond)

(***************************************************************************)
(* The HTTP surface: verify_api_key and the three endpoints it guards,     *)
(* each request handled in one step.                                       *)
(***************************************************************************)
\* os.getenv(name, default)
GetEnv(e, name, default) == IF e[name] = Unset THEN default ELSE e[name]

\* faulty variant: without a configured key every request is let through
VerifyKeyIfConfigured(e, x_api_key) ==
    IF Lower(GetEnv(e, "ENABLE_AUTH", PyStr(<<"f", "a", "l", "s", "e">>)).v)
          = <<"t", "r", "u", "e">>
    THEN LET expected_key == GetEnv(e, "API_KEY", PyNone)
         IN  expected_key = PyNone \/ x_api_key = expected_key
    ELSE TRUE

\* lines 89-94: TRUE when the request goes on to its handler, FALSE when
\* HTTPException(status_code=401, detail="Invalid API key") is raised
verify_api_key(e, x_api_key) ==
    IF Lower(GetEnv(e, "ENABLE_AUTH", PyStr(<<"f", "a", "l", "s", "e">>)).v)
          = <<"t", "r", "u", "e">>
    THEN LET expected_key == GetEnv(e, "API_KEY", PyNone)
         IN  ~((expected_key = PyNone \/ expected_key.v = <<>>)
               \/ x_api_key # expected_key)
    ELSE TRUE

\* the response FastAPI sends for the HTTPException of line 93
Unauthorized == [status |-> "401", body |-> [detail |-> "Invalid API key"]]

\* lines 107-137 from position k of the batch on; acc is what the loop has
\* built so far
RECURSIVE RunBatch(_, _, _, _, _)
RunBatch(batch, k, acc, resp, md) ==
    IF k > Len(batch) THEN acc
    ELSE LET h == HandleCall(batch[k], acc.files, resp, md)
         IN  RunBatch(batch, k + 1,
                      [responses |-> Append(acc.responses, h.item),
                       files |-> h.files,
                       net |-> acc.net \o h.net,
                       called |-> acc.called \o h.called],
                      resp, md)

\* str(e) of the HTTPException raised at line 148.  Starlette releases that
\* define HTTPException.__str__ give "404: <detail>"; the others give "", the
\* exception being built from keyword arguments only.
HTTPExceptionStr(detail) == {"404: " \o detail, ""}

\* lines 142-164: handle_raw_tool_call on the body data, str_e being str(e)
\* of the HTTPException of line 148 in the installed Starlette
handle_raw_tool_call(data, dir, resp, md, str_e) ==
    IF data.name \notin DOMAIN tool_registry
    THEN [body |-> [tool_name |-> data.name, output |-> PyNone,
                    error |-> PyStr(str_e)],
          files |-> dir, net |-> <<>>, called |-> <<>>]
    ELSE LET r == CallFunction(tool_registry[data.name], data.parameters,
                               dir, resp, md)
         IN  [body |-> IF r.raised
                       THEN [tool_name |-> data.name, output |-> PyNone,
                             error |-> PyStr(r.msg)]
                       ELSE [tool_name |-> data.name, output |-> r.value,
                             error |-> PyNone],
              files |-> r.files, net |-> r.net,
              called |-> <<[func |-> tool_registry[data.name],
                            raised |-> r.raised, msg |-> r.msg,
                            value |-> IF r.raised THEN PyNone ELSE r.value]>>]

\* the settings of the server and the X-API-Key headers of the clients
Envs ==
    {[ENABLE_AUTH |-> a, API_KEY |-> k] :
        a \in {Unset, PyStr(<<"T", "r", "u", "e">>)},
        k \in {Unset, PyStr(<<"k">>)}}
Headers == {PyNone, PyStr(<<"k">>), PyStr(<<"x">>)}
\* the batches sent to POST /tool here: empty, or of one call
HttpBatches == {<<>>} \cup {<<c>> : c \in ToolCalls}
\* what the network answers here: a page, or no connection
HttpResponses ==
    {[ok |-> TRUE, text |-> PageTitled, msg |-> ""],
     [ok |-> FALSE, text |-> <<>>, msg |-> ConnError]}
\* the cache directory when the server starts: empty, or holding a page
WarmCaches == {<<>>, get_cache_path(UrlPage) :> WriteText(PageNav)}

\* a request and its answer: input is the body sent, before the cache
\* directory found, resp what the network would answer, called the registered
\* functions invoked, net the URLs requested, unchanged whether the cache
\* directory was left as found
Exchange(endpoint, x_api_key, input, resp, status, body, called, requested, dir) ==
    [endpoint |-> endpoint, x_api_key |-> x_api_key, input |-> input,
     before |-> files, resp |-> resp, status |-> status, body |-> body,
     called |-> called, net |-> requested, unchanged |-> dir = files]

\* a request the dependency verify_api_key rejects: the handler does not run
Reject(endpoint, x_api_key, input, resp) ==
    /\ served' = Append(served,
          Exchange(endpoint, x_api_key, input, resp, Unauthorized.status,
                   Unauthorized.body, <<>>, <<>>, files))
    /\ files' = files

\* POST /tool, lines 105-137
PostTool ==
    /\ Len(served) < MaxRequests
    /\ \E x_api_key \in Headers, batch \in HttpBatches, resp \in HttpResponses :
          IF ~verify_api_key(env, x_api_key)
          THEN Reject("/tool", x_api_key, batch, resp)
          ELSE \E a \in {RunBatch(batch, 1,
                                  [responses |-> <<>>, files |-> files,
                                   net |-> <<>>, called |-> <<>>],
                                  resp, markdown_of)} :
                  /\ served' = Append(served,
                        Exchange("/tool", x_api_key, batch, resp, "200",
                                 [responses |-> a.responses], a.called, a.net,
                                 a.files))
                  /\ files' = a.files
    /\ UNCHANGED <<pc, request, i, responses, net, invoked, fetched, reads,
                   markdown_of, env, procs, received, norm, paged>>

\* POST /raw_tool, lines 140-164
PostRawTool ==
    /\ Len(served) < MaxRequests
    /\ \E x_api_key \in Headers, data \in ToolCalls, resp \in HttpResponses :
          IF ~verify_api_key(env, x_api_key)
          THEN Reject("/raw_tool", x_api_key, data, resp)
          ELSE \E str_e \in IF data.name \in DOMAIN tool_registry THEN {""}
                            ELSE HTTPExceptionStr(NotFoundMsg(data.name)) :
               \E a \in {handle_raw_tool_call(data, files, resp, markdown_of,
                                              str_e)} :
                  /\ served' = Append(served,
                        Exchange("/raw_tool", x_api_key, data, resp, "200",
                                 a.body, a.called, a.net, a.files))
                  /\ files' = a.files
    /\ UNCHANGED <<pc, request, i, responses, net, invoked, fetched, reads,
                   markdown_of, env, procs, received, norm, paged>>

\* GET /tools/list, lines 166-170
GetToolsList ==
    /\ Len(served) < MaxRequests
    /\ \E x_api_key \in Headers :
          IF ~verify_api_key(env, x_api_key)
          THEN Reject("/tools/list", x_api_key, <<>>, PyNone)
          ELSE /\ served' = Append(served,
                     Exchange("/tools/list", x_api_key, <<>>, PyNone, "200",
                              [tools |-> DOMAIN tool_registry], <<>>, <<>>,
                              files))
               /\ files' = files
    /\ UNCHANGED <<pc, request, i, responses, net, invoked, fetched, reads,
                   markdown_of, env, procs, received, norm, paged>>

\* the server starts with any settings, over an empty or a warm cache
InitHttp ==
    /\ files \in WarmCaches
    /\ env \in Envs
    /\ pc = "idle"
    /\ request = <<>>
    /\ i = 1
    /\ responses = <<>>
    /\ net = <<>>
    /\ invoked = <<>>
    /\ fetched = <<>>
    /\ reads = <<>>
    /\ markdown_of = MarkdownTable
    /\ served = <<>>
    /\ procs = [p \in Procs |-> IdleProc]
    /\ received = {}
    /\ norm = <<>>
    /\ paged = 0

NextHttp == PostTool \/ PostRawTool \/ GetToolsList

SpecHttp == InitHttp /\ [][NextHttp]_vars

(***************************************************************************)
(* fetch_url called by two callers side by side (two server processes, or  *)
(* a server and a script, over the same cache directory): each call is a   *)
(* sequence of steps on the file system and the network, and the steps of  *)
(* the two calls interleave in any order.                                  *)
(***************************************************************************)
\* the URLs fetched here (both allowed, with cache files of their own) and
\* what the network answers
RaceUrls == {UrlPage, UrlSlash}
RaceResponses ==
    {[ok |-> TRUE, text |-> PageTitled, msg |-> ""],
     [ok |-> TRUE, text |-> PageNav, msg |-> ""],
     [ok |-> FALSE, text |-> <<>>, msg |-> ConnError]}

\* faulty variant: the cache is looked at and then not used
CheckCacheSkipping(p) ==
    /\ procs[p].pc = "idle"
    /\ \E url \in RaceUrls :
          procs' = [procs EXCEPT ![p] =
                       [IdleProc EXCEPT !.url = url,
                                        !.found = get_cache_path(url) \in DOMAIN files,
                                        !.pc = "get"]]
    /\ UNCHANGED <<files, pc, request, i, responses, net, invoked, fetched, reads,
                   markdown_of, env, served, received, norm, paged>>

\* lines 45-52: the call starts, its URL passes the check of line 45, and
\* os.path.exists(cache_path) is asked
CheckCache(p) ==
    /\ procs[p].pc = "idle"
    /\ \E url \in RaceUrls :
          procs' = [procs EXCEPT ![p] =
                       [IdleProc EXCEPT !.url = url,
                                        !.found = get_cache_path(url) \in DOMAIN files,
                                        !.pc = IF USE_CACHE /\ get_cache_path(url) \in DOMAIN files
                                               THEN "read" ELSE "get"]]
    /\ UNCHANGED <<files, pc, request, i, responses, net, invoked, fetched, reads,
                   markdown_of, env, served, received, norm, paged>>

\* lines 53-55: the cache file is opened and read, whatever it holds now
ReadCache(p) ==
    /\ procs[p].pc = "read"
    /\ procs' = [procs EXCEPT ![p].pc = "done",
                              ![p].value = ReadText(files[get_cache_path(procs[p].url)])]
    /\ UNCHANGED <<files, pc, request, i, responses, net, invoked, fetched, reads,
                   markdown_of, env, served, received, norm, paged>>

\* lines 62-64: the network answers; an error is raised to the caller
Get(p) ==
    /\ procs[p].pc = "get"
    /\ \E resp \in RaceResponses :
          IF resp.ok
          THEN /\ procs' = [procs EXCEPT ![p].pc = IF USE_CACHE THEN "open" ELSE "done",
                                         ![p].content = resp.text,
                                         ![p].value = IF USE_CACHE THEN <<>> ELSE resp.text]
               /\ received' = received \cup {<<procs[p].url, resp.text>>}
          ELSE /\ procs' = [procs EXCEPT ![p].pc = "done", ![p].raised = TRUE]
               /\ received' = received
    /\ UNCHANGED <<files, pc, request, i, responses, net, invoked, fetched, reads,
                   markdown_of, env, served, norm, paged>>

\* line 68: open(get_cache_path(url), 'w') creates the file or empties it
OpenWrite(p) ==
    /\ procs[p].pc = "open"
    /\ files' = (get_cache_path(procs[p].url) :> <<>>) @@ files
    /\ procs' = [procs EXCEPT ![p].pc = "write"]
    /\ UNCHANGED <<pc, request, i, responses, net, invoked, fetched, reads,
                   markdown_of, env, served, received, norm, paged>>

\* lines 69-71: f.write(content), the file is closed (the buffer reaches the
\* file) and content is returned
WriteClose(p) ==
    /\ procs[p].pc = "write"
    /\ files' = (get_cache_path(procs[p].url) :> WriteText(procs[p].content)) @@ files
    /\ procs' = [q \in Procs |->
                    IF q = p
                    THEN [procs[p] EXCEPT !.pc = "done", !.value = procs[p].content,
                                          !.wrote = TRUE, !.last = TRUE]
                    ELSE IF procs[q].url = procs[p].url
                    THEN [procs[q] EXCEPT !.last = FALSE]
                    ELSE procs[q]]
    /\ UNCHANGED <<pc, request, i, responses, net, invoked, fetched, reads,
                   markdown_of, env, served, received, norm, paged>>

NextRace ==
    \E p \in Procs :
       CheckCache(p) \/ ReadCache(p) \/ Get(p) \/ OpenWrite(p) \/ WriteClose(p)

SpecRace == Init /\ [][NextRace]_vars

(***************************************************************************)
(* The normalizer applied to its own output.  The inputs are documents     *)
(* built from a few pieces: the <b> element (which no rewriting rule       *)
(* names, so that only the tag clean-up touches it), the same tags written *)
(* with entities, doubly escaped entities, text and a line end.  Entities  *)
(* that BeautifulSoup decodes while parsing are written back by            *)
(* str(soup), so the markup the rules see is the markup given.             *)
(***************************************************************************)
MaxPieces == 2

EscOpenB == <<"&", "l", "t", ";", "b", "&", "g", "t", ";">>
EscCloseB == <<"&", "l", "t", ";", "/", "b", "&", "g", "t", ";">>
EscEscLt == <<"&", "a", "m", "p", ";", "l", "t", ";">>
EscEscAmp == <<"&", "a", "m", "p", ";", "a", "m", "p", ";">>
Pieces == {EscOpenB, EscCloseB, EscEscLt, EscEscAmp,
           OpenTag(<<"b">>), CloseTag(<<"b">>), <<"x">>, NL}

RECURSIVE Documents(_)
Documents(n) ==
    IF n = 0 THEN {<<>>}
    ELSE Documents(n - 1)
         \cup {d \o p : d \in Documents(n - 1), p \in Pieces}

\* a caller holds an HTML document h
TakeDocument ==
    /\ norm = <<>>
    /\ \E h \in Documents(MaxPieces) : norm' = <<h>>
    /\ UNCHANGED <<files, pc, request, i, responses, net, invoked, fetched,
                   reads, markdown_of, env, served, procs, received,
                   paged>>

\* html_to_markdown applied to the document, then to its own result
NormalizeAgain ==
    /\ Len(norm) \in {1, 2}
    /\ \E out \in {html_to_markdown(norm[Len(norm)])} :
          norm' = Append(norm, out)
    /\ UNCHANGED <<files, pc, request, i, responses, net, invoked, fetched,
                   reads, markdown_of, env, served, procs, received,
                   paged>>

NextNorm == TakeDocument \/ NormalizeAgain

SpecNorm == Init /\ [][NextNorm]_vars

(***************************************************************************)
(* fetch_url called directly, on any URL.                                  *)
(***************************************************************************)
FetchCall ==
    /\ Len(fetched) < MaxFetches
    /\ \E url \in Urls, resp \in NetResponses :
          \E r \in {fetch_url(url, files, resp)} :
              /\ files' = r.files
              /\ fetched' = Append(fetched,
                    [url |-> url,
                     cached |-> get_cache_path(url) \in DOMAIN files,
                     raised |-> r.raised, msg |-> r.msg, value |-> r.value,
                     net |-> r.net, unchanged |-> r.files = files])
    /\ UNCHANGED <<pc, request, i, responses, net, invoked, reads, markdown_of, others>>

NextFetch == FetchCall

SpecFetch == Init /\ [][NextFetch]_vars

(***************************************************************************)
(* fetch_url against a server whose answers carry their status code.       *)
(* requests.get follows a redirect that names a Location and hands every   *)
(* other answer to the caller; response.raise_for_status() raises for the  *)
(* codes 400..599 and for no other.                                        *)
(***************************************************************************)
raise_for_status(status_code) == 400 <= status_code /\ status_code < 600

ServerError == "500 Server Error: Internal Server Error"

\* what requests.get gives for an answer of the server
Answer(status_code, text, reason) ==
    [ok |-> ~raise_for_status(status_code),
     text |-> IF raise_for_status(status_code) THEN <<>> ELSE text,
     msg |-> IF raise_for_status(status_code) THEN reason ELSE "",
     status_code |-> status_code]

\* no answer at all: requests.get raises ConnectionError
NoAnswer == [ok |-> FALSE, text |-> <<>>, msg |-> ConnError, status_code |-> 0]

StatusResponses ==
    {Answer(200, PageTitled, ""), Answer(200, PageNav, ""),
     Answer(204, <<>>, ""), Answer(304, <<>>, ""),
     Answer(404, <<>>, HttpError), Answer(500, <<>>, ServerError), NoAnswer}

FetchStatus ==
    /\ Len(fetched) < MaxFetches
    /\ \E url \in Urls, resp \in StatusResponses :
          \E r \in {fetch_url(url, files, resp)} :
              /\ files' = r.files
              /\ fetched' = Append(fetched,
                    [url |-> url,
                     cached |-> get_cache_path(url) \in DOMAIN files,
                     raised |-> r.raised, msg |-> r.msg, value |-> r.value,
                     net |-> r.net, unchanged |-> r.files = files,
                     status_code |-> IF r.net = <<>> THEN 0 ELSE resp.status_code,
                     answered |-> r.net # <<>> /\ resp # NoAnswer])
    /\ UNCHANGED <<pc, request, i, responses, net, invoked, reads, markdown_of, others>>

NextStatus == FetchStatus

SpecStatus == Init /\ [][NextStatus]_vars

(***************************************************************************)
(* read_documentation called directly: a first call with the default       *)
(* window, then a call with any start_index and max_length.                *)
(***************************************************************************)
PageUrls == {UrlPage, UrlSlash, UrlBlog, UrlEvil}
Indexes == (0 - NegIndex)..MaxIndex

\* the call, what it returned, and text: the page content it fetched (from
\* the cache or the network), <<>> when it fetched none
ReadRecord(url, max_length, start_index, dir, resp) ==
    LET r == read_documentation(PyStr(url), PyInt(max_length), PyInt(start_index),
                                dir, resp, markdown_of)
        f == fetch_url(url, dir, resp)
        got == StartsWithAny(url, DocsPrefixes) /\ ~f.raised
    IN  [url |-> url, max_length |-> max_length, start_index |-> start_index,
         fetched |-> got, html |-> IF got THEN f.value ELSE <<>>,
         ret |-> r.value, net |-> r.net, files |-> r.files]

ReadCall(url, max_length, start_index, resp) ==
    \E c \in {ReadRecord(url, max_length, start_index, files, resp)} :
        /\ files' = c.files
        /\ reads' = Append(reads, [c EXCEPT !.files = files = c.files])
        /\ UNCHANGED <<pc, request, i, responses, net, invoked, fetched, markdown_of, others>>

ReadFirst ==
    /\ reads = <<>>
    /\ \E url \in PageUrls, resp \in NetResponses :
          ReadCall(url, DEFAULT_MAX_LENGTH, DEFAULT_START_INDEX, resp)

ReadWindow ==
    /\ Len(reads) = 1
    /\ \E url \in PageUrls, resp \in NetResponses :
       \E max_length \in Indexes, start_index \in Indexes :
          ReadCall(url, max_length, start_index, resp)

NextPage == ReadFirst \/ ReadWindow

SpecPage == Init /\ [][NextPage]_vars

(***************************************************************************)
(* A client paging through one cached page: the first call asks for the    *)
(* window at 0, each later call for the window at the end_index of the     *)
(* result before it, for as long as that result says is_truncated.         *)
(***************************************************************************)
MaxWindow == 3

PagingUrls == {UrlPage, UrlDash, UrlSlash}

\* an earlier fetch that put the page in the cache
CacheFill ==
    /\ fetched = <<>>
    /\ reads = <<>>
    /\ \E url \in PagingUrls, resp \in NetResponses :
          \E r \in {fetch_url(url, files, resp)} :
              /\ files' = r.files
              /\ fetched' = Append(fetched,
                    [url |-> url,
                     cached |-> get_cache_path(url) \in DOMAIN files,
                     raised |-> r.raised, msg |-> r.msg, value |-> r.value,
                     net |-> r.net, unchanged |-> r.files = files])
    /\ UNCHANGED <<pc, request, i, responses, net, invoked, reads, markdown_of, others>>

\* one call of the paging client
PageCall(url, max_length, start_index, resp) ==
    \E c \in {ReadRecord(url, max_length, start_index, files, resp)} :
        /\ files' = c.files
        /\ reads' = Append(reads, [c EXCEPT !.files = files = c.files])
        /\ paged' = paged + 1
        /\ UNCHANGED <<pc, request, i, responses, net, invoked, fetched, markdown_of,
                       env, served, procs, received, norm>>

\* read_documentation(url, max_length, 0) on a cached URL
PageStart ==
    /\ paged = 0
    /\ \E url \in PagingUrls, resp \in NetResponses :
       \E max_length \in 1..MaxWindow :
          /\ get_cache_path(url) \in DOMAIN files
          /\ PageCall(url, max_length, 0, resp)

\* the result before says is_truncated
MorePages ==
    /\ paged > 0
    /\ ~IsErrorDict(reads[paged].ret)
    /\ reads[paged].ret.v.is_truncated

\* read_documentation(url, max_length, end_index of the result before)
PageNext ==
    /\ MorePages
    /\ \E last \in {reads[paged]}, resp \in NetResponses :
          PageCall(last.url, last.max_length, last.ret.v.end_index, resp)

\* the client goes on calling for as long as a result says is_truncated
PageTurn == MorePages /\ paged' = paged + 1

NextPaging == CacheFill \/ PageStart \/ PageNext

SpecPaging == Init /\ [][NextPaging]_vars /\ WF_paged(PageTurn)

(***************************************************************************)
(* Properties of POST /tool, under Spec.                                   *)
(***************************************************************************)
\* the calls of registered functions made for the k-th call of the request
InvokedAt(k) == {j \in 1..Len(invoked) : invoked[j].index = k}

\* the k-th response carries the outcome of the k-th call: what the function
\* returned, the message of what it raised, or an error when none was called
CarriesOutcome(k) ==
    IF InvokedAt(k) = {}
    THEN responses[k].output = PyNone /\ responses[k].error.t = "str"
    ELSE \A j \in InvokedAt(k) :
            IF invoked[j].raised
            THEN /\ responses[k].output = PyNone
                 /\ responses[k].error = PyStr(invoked[j].msg)
            ELSE /\ responses[k].output = invoked[j].value
                 /\ responses[k].error = PyNone

\* C1: for every batch, of registered, unregistered and failing tools alike,
\* the loop has appended one response per call handled so far (it never skips
\* a call or stops part-way), so the list returned has as many entries as the
\* batch has calls, and the k-th response carries the tool name and the
\* outcome of the k-th call.
C1_OneResponsePerCall ==
    /\ pc = "dispatch" => Len(responses) = i - 1 /\ i - 1 <= Len(request)
    /\ Finished => Len(responses) = Len(request)
    /\ \A k \in 1..Len(responses) :
          /\ responses[k].tool_name = request[k].name
          /\ CarriesOutcome(k)

\* a full batch answered: an unregistered name, then a call that raised
C1_Witness ==
    /\ Finished
    /\ request = <<CallUnknown, CallNoUrl>>
    /\ Len(responses) = MaxBatch
    /\ \E j \in InvokedAt(2) : invoked[j].raised

\* C2: when the registered function of a call raises (a parameter name it
\* does not accept included), the response of that call has error equal to
\* the exception message and no output, and every later call of the batch is
\* still invoked: at the end every registered call of the batch was invoked,
\* in order.
C2_RaiseBecomesError ==
    /\ \A j \in 1..Len(invoked) :
          invoked[j].raised =>
             /\ invoked[j].index <= Len(responses)
             /\ responses[invoked[j].index] =
                   [tool_name |-> request[invoked[j].index].name,
                    output |-> PyNone,
                    error |-> PyStr(invoked[j].msg)]
    /\ \A k \in 1..Len(responses) :
          /\ request[k] = CallBogus =>
                responses[k].error = PyStr(
                   "read_documentation() got an unexpected keyword argument 'bogus'")
          /\ request[k] = CallNoUrl =>
                responses[k].error = PyStr(
                   "read_documentation() missing 1 required positional argument: 'url'")
    /\ Finished =>
          /\ \A k \in 1..Len(request) :
                request[k].name \in DOMAIN tool_registry =>
                   \E j \in InvokedAt(k) :
                      invoked[j].func = tool_registry[request[k].name]
          /\ \A j1, j2 \in 1..Len(invoked) :
                j1 < j2 => invoked[j1].index < invoked[j2].index

\* the first call raised on a parameter it does not accept, and the call
\* after it was invoked and returned a page
C2_Witness ==
    /\ Finished
    /\ request = <<CallBogus, CallRead>>
    /\ responses[1].output = PyNone
    /\ responses[1].error.t = "str"
    /\ \E j \in InvokedAt(2) : ~invoked[j].raised
    /\ responses[2].error = PyNone
    /\ "content" \in DOMAIN responses[2].output.v

\* C3: a call whose name is not registered gets error "Tool '<name>' not
\* found" and no output, no function is invoked for it, and the loop goes on
\* to the next call: the calls after it are answered too.
C3_UnknownToolNotFound ==
    /\ \A k \in 1..Len(responses) :
          request[k].name \notin {"k8s_read_documentation",
                                  "k8s_search_documentation", "k8s_recommend"} =>
             /\ responses[k] =
                   [tool_name |-> request[k].name,
                    output |-> PyNone,
                    error |-> PyStr("Tool '" \o request[k].name \o "' not found")]
             /\ InvokedAt(k) = {}
    /\ pc = "dispatch" => Len(responses) = i - 1

\* an unregistered name came first and the call after it was still invoked
C3_Witness ==
    /\ Finished
    /\ request = <<CallUnknown, CallSearch>>
    /\ responses[1].error = PyStr("Tool 'no_such_tool' not found")
    /\ InvokedAt(1) = {}
    /\ InvokedAt(2) # {}
    /\ responses[2].output # PyNone

\* C4: every response item the loop produces has exactly one of output and
\* error populated.
C4_ExactlyOnePopulated ==
    \A k \in 1..Len(responses) :
       (responses[k].output = PyNone) # (responses[k].error = PyNone)

\* a batch answered with one item of each kind: a result, then an error
C4_Witness ==
    /\ Finished
    /\ request = <<CallRecommend, CallBogus>>
    /\ responses[1].output # PyNone /\ responses[1].error = PyNone
    /\ responses[2].output = PyNone /\ responses[2].error # PyNone

\* C5: when a dispatched read_documentation call fails with a tool-level
\* error (a URL outside the documentation, or a failure of the fetch, both of
\* which read_documentation reports as {"error": ...}), the response of that
\* call has its error field populated and no output.
C5_ToolErrorInErrorField ==
    \A k \in 1..Len(responses) :
       \A j \in InvokedAt(k) :
          (/\ invoked[j].func = "read_documentation"
           /\ ~invoked[j].raised
           /\ request[k] = CallEvil \/ IsErrorDict(invoked[j].value)) =>
             /\ responses[k].error.t = "str"
             /\ responses[k].output = PyNone

(***************************************************************************)
(* Properties of read_documentation, under SpecPage.                       *)
(***************************************************************************)
\* url does not start with the documentation base path under kubernetes.io
OutsideDocs(url) ==
    /\ ~StartsWith(url, HttpsHost \o <<"/", "d", "o", "c", "s">>)
    /\ ~StartsWith(url, HttpHost \o <<"/", "d", "o", "c", "s">>)

\* C6: read_documentation called with a URL that does not start with the
\* documentation base path under kubernetes.io returns exactly
\* {error: "URL must be from kubernetes.io/docs domain"}, makes no network
\* request and leaves every cache entry as it was.
C6_RejectsOutsideDocs ==
    \A n \in 1..Len(reads) :
       OutsideDocs(reads[n].url) =>
          /\ reads[n].ret =
                PyDict([error |-> "URL must be from kubernetes.io/docs domain"])
          /\ reads[n].net = <<>>
          /\ ~reads[n].fetched
          /\ reads[n].files

\* https://evil.io/docs/x was rejected while the cache held a page
C6_Witness ==
    /\ Len(reads) = 2
    /\ reads[1].fetched
    /\ files # <<>>
    /\ reads[2].url = UrlEvil
    /\ "error" \in DOMAIN reads[2].ret.v

\* the window of text that starts at s and holds at most m characters
WindowEnd(text, s, m) == IF s + m <= Len(text) THEN s + m ELSE Len(text)

\* C9: for every text and every start_index >= 0 and max_length >= 0 with
\* start_index <= total_length, the page returned has end_index =
\* min(start_index + max_length, total_length), content =
\* text[start_index:end_index], end_index - start_index = len(content) (so
\* len(content) <= max_length) and is_truncated = (end_index < total_length).
C9_WindowInsideText ==
    \A n \in 1..Len(reads) :
       (/\ reads[n].fetched
        /\ reads[n].start_index >= 0
        /\ reads[n].max_length >= 0
        /\ reads[n].start_index <= Len(markdown_of[reads[n].html])) =>
          LET text == markdown_of[reads[n].html]
              s == reads[n].start_index
              e == WindowEnd(text, s, reads[n].max_length)
              page == reads[n].ret.v
          IN  /\ page.total_length = Len(text)
              /\ page.start_index = s
              /\ page.end_index = e
              /\ page.content = SubSeq(text, s + 1, e)
              /\ page.end_index - page.start_index = Len(page.content)
              /\ Len(page.content) <= reads[n].max_length
              /\ page.is_truncated = (e < Len(text))

\* a window strictly inside the text: characters 1 and 2 of "Tab\n\n"
C9_Witness ==
    /\ Len(reads) = 2
    /\ reads[2].fetched
    /\ reads[2].start_index = 1
    /\ reads[2].max_length = 2
    /\ reads[2].ret.v.total_length = 5
    /\ reads[2].ret.v.content = <<"a", "b">>
    /\ reads[2].ret.v.is_truncated

\* C10: for every start_index greater than total_length, with max_length >=
\* 0, the page returned has an empty content, end_index = total_length and
\* is_truncated = false.
C10_WindowPastEnd ==
    \A n \in 1..Len(reads) :
       (/\ reads[n].fetched
        /\ reads[n].max_length >= 0
        /\ reads[n].start_index > Len(markdown_of[reads[n].html])) =>
          /\ reads[n].ret.v.content = <<>>
          /\ reads[n].ret.v.end_index = Len(markdown_of[reads[n].html])
          /\ reads[n].ret.v.is_truncated = FALSE

\* start_index 6 on the five characters of "Tab\n\n"
C10_Witness ==
    /\ Len(reads) = 2
    /\ reads[2].fetched
    /\ reads[2].html = PageTitled
    /\ reads[2].start_index = MaxIndex
    /\ reads[2].max_length = 2
    /\ reads[2].ret.v.total_length = 5
    /\ reads[2].ret.v.content = <<>>

\* C11: a read_documentation call with a negative start_index or a negative
\* max_length fails with an error: it returns no content window computed
\* from the negative value.
C11_NegativeArgumentsFail ==
    \A n \in 1..Len(reads) :
       (reads[n].start_index < 0 \/ reads[n].max_length < 0) =>
          /\ "error" \in DOMAIN reads[n].ret.v
          /\ "content" \notin DOMAIN reads[n].ret.v

\* C12: every successful result of read_documentation, whatever start_index
\* and max_length were requested, has 0 <= start_index <= end_index <=
\* total_length, and when start_index >= total_length its content is empty
\* and is_truncated is false.
C12_IndexesOrdered ==
    \A n \in 1..Len(reads) :
       "content" \in DOMAIN reads[n].ret.v =>
          LET page == reads[n].ret.v
          IN  /\ 0 <= page.start_index
              /\ page.start_index <= page.end_index
              /\ page.end_index <= page.total_length
              /\ page.start_index >= page.total_length =>
                    page.content = <<>> /\ page.is_truncated = FALSE

\* url without the slashes it ends with
RECURSIVE StripSlashes(_)
StripSlashes(url) ==
    IF url # <<>> /\ url[Len(url)] = "/"
    THEN StripSlashes(SubSeq(url, 1, Len(url) - 1))
    ELSE url

\* C16: in a successful result of read_documentation the title is the text
\* of the title element of the page when it has one, and otherwise the last
\* non-empty path segment of the URL requested: never an empty title.
C16_TitleOrLastSegment ==
    \A n \in 1..Len(reads) :
       "title" \in DOMAIN reads[n].ret.v =>
          LET title == reads[n].ret.v.title
          IN  /\ title.t = "str"
              /\ title.v # <<>>
              /\ reads[n].html = PageTitled => title.v = <<"T">>
              /\ Find(reads[n].html, <<"<", "t", "i", "t", "l", "e">>, 1) = 0 =>
                    title.v = LastSegment(StripSlashes(reads[n].url))

(***************************************************************************)
(* Properties of fetch_url, under SpecFetch.                               *)
(***************************************************************************)
\* the host of url: what stands between "://" and the next "/"
HostOf(url) ==
    LET a == Find(url, <<":", "/", "/">>, 1)
        b == Find(url, <<"/">>, a + 3)
    IN  SubSeq(url, a + 3, IF b = 0 THEN Len(url) ELSE b - 1)

\* C7: for every URL whose host is not exactly kubernetes.io (a host that
\* only begins with that text included), fetch_url fails with the
\* invalid-domain error, requests nothing from the network and reads or
\* writes no cache entry.
C7_OnlyDocumentationHost ==
    \A n \in 1..Len(fetched) :
       HostOf(fetched[n].url) #
            <<"k", "u", "b", "e", "r", "n", "e", "t", "e", "s", ".", "i", "o">> =>
          /\ fetched[n].raised
          /\ fetched[n].msg =
                "URL must be from kubernetes.io domain: " \o Text(fetched[n].url)
          /\ fetched[n].net = <<>>
          /\ fetched[n].unchanged

\* C8: with the cache enabled, fetching the same URL twice in a row, the
\* first fetch succeeding, requests the network exactly once and the second
\* fetch returns the content the first one returned; and a fetch that finds
\* a cache entry for the key of its URL requests nothing from the network.
C8_CacheRoundTrip ==
    /\ \A n \in 1..Len(fetched) :
          fetched[n].cached /\ ~fetched[n].raised => fetched[n].net = <<>>
    /\ \A n \in 1..(Len(fetched) - 1) :
          (/\ fetched[n].url = fetched[n + 1].url
           /\ ~fetched[n].cached
           /\ ~fetched[n].raised) =>
             /\ fetched[n].net \o fetched[n + 1].net = <<fetched[n].url>>
             /\ ~fetched[n + 1].raised
             /\ fetched[n + 1].value = fetched[n].value

\* C20: the cache never serves the content of one URL for another: after
\* any sequence of fetches, a fetch of u that succeeds returns a body that a
\* network request for u itself received (as served, or as read back from
\* the cache file), also for two URLs that differ only in non-word
\* characters and so have the same cache file.
C20_OwnContentOnly ==
    \A n \in 1..Len(fetched) :
       ~fetched[n].raised =>
          \E m \in 1..n :
             /\ fetched[m].url = fetched[n].url
             /\ ~fetched[m].raised
             /\ fetched[m].net = <<fetched[n].url>>
             /\ fetched[n].value \in {fetched[m].value, ReadText(fetched[m].value)}

(***************************************************************************)
(* Properties of POST /tool against a silent server, under SpecLive.       *)
(***************************************************************************)
\* C13: every network fetch is bounded by a timeout: even when a server
\* never answers, the fetch fails in the end, and every batch received is
\* eventually answered with one response per call.
C13_BatchEventuallyAnswered ==
    (pc # "idle") ~> (Finished /\ Len(responses) = Len(request))

(***************************************************************************)
(* Properties of the HTTP surface, under SpecHttp.                         *)
(***************************************************************************)
\* C14: POST /raw_tool is the one-call case of POST /tool: for every tool
\* name, registered or not, and every parameter map, it answers with the
\* {tool_name, output, error} triple that POST /tool gives for the batch of
\* that one call; an unknown name gives error "Tool '<name>' not found" and
\* no output.
C14_RawIsOneCallBatch ==
    \A n \in 1..Len(served) :
       (served[n].endpoint = "/raw_tool" /\ served[n].status = "200") =>
          /\ served[n].body =
                HandleCall(served[n].input, served[n].before, served[n].resp,
                           markdown_of).item
          /\ served[n].input.name = "no_such_tool" =>
                served[n].body = [tool_name |-> "no_such_tool", output |-> PyNone,
                                  error |-> PyStr("Tool 'no_such_tool' not found")]

\* the request does not carry the key the server is configured with
LacksKey(n) ==
    \/ served[n].x_api_key = PyNone
    \/ env.API_KEY = Unset
    \/ served[n].x_api_key # env.API_KEY

\* C15: when the shared-secret check is enabled, a request to /tool,
\* /raw_tool or /tools/list that lacks the header or carries a value other
\* than the configured key (also when no key is configured) is rejected: it
\* invokes no tool, makes no network request and leaves the cache as it was.
C15_NoKeyNoCall ==
    \A n \in 1..Len(served) :
       (/\ env.ENABLE_AUTH # Unset
        /\ Lower(env.ENABLE_AUTH.v) = <<"t", "r", "u", "e">>
        /\ LacksKey(n)) =>
          /\ served[n].status = "401"
          /\ served[n].body = [detail |-> "Invalid API key"]
          /\ served[n].called = <<>>
          /\ served[n].net = <<>>
          /\ served[n].unchanged

\* with the check enabled and no key configured, a page read sent to /tool
\* with some key was rejected over a warm cache
C15_Witness ==
    /\ env = [ENABLE_AUTH |-> PyStr(<<"T", "r", "u", "e">>), API_KEY |-> Unset]
    /\ Len(served) = 1
    /\ served[1].endpoint = "/tool"
    /\ served[1].input = <<CallRead>>
    /\ served[1].x_api_key = PyStr(<<"k">>)
    /\ served[1].status = "401"
    /\ files # <<>>

(***************************************************************************)
(* Properties of fetch_url called side by side, under SpecRace.            *)
(***************************************************************************)
\* the cache entry of key has been created: a call has written it and closed it
Created(key) ==
    \E p \in Procs : procs[p].wrote /\ get_cache_path(procs[p].url) = key

\* the call that takes the step
Stepping(p) == procs'[p] # procs[p]

\* C17 as stated in the specification: once a cache entry has been created,
\* no step of any fetch call, sequential or concurrent, changes its content.
C17_EntryNeverChanges ==
    [][\A key \in DOMAIN files : Created(key) => files'[key] = files[key]]_vars

\* C17: once a cache entry has been created, its content is changed by no
\* call that starts after the creation (so by no sequence of calls made one
\* after the other); the only calls that change it are concurrent ones that
\* had found the cache without the entry before it was created.
C17_EntryChangedOnlyByRacers ==
    [][\A key \in DOMAIN files :
          (Created(key) /\ files'[key] # files[key]) =>
             \E p \in Procs :
                /\ Stepping(p)
                /\ get_cache_path(procs[p].url) = key
                /\ ~procs[p].found]_vars

\* an entry was created by one call, then found, read and returned by a call
\* that started after it, and it still holds what the first call wrote
C17_Witness ==
    /\ procs["p1"].pc = "done" /\ procs["p1"].wrote
    /\ procs["p2"].pc = "done" /\ procs["p2"].found
    /\ procs["p2"].url = procs["p1"].url
    /\ files[get_cache_path(procs["p1"].url)] = procs["p1"].content
    /\ procs["p2"].value = procs["p1"].content

\* C18: when fetches of the same uncached URL interleave, every fetch that
\* returns, one that reads the cache file while another writes it included,
\* returns the complete body of a network response for its URL, and once
\* all are done the cache entry is the complete body the last writer wrote.
C18_NoTornRead ==
    /\ \A p \in Procs :
          (procs[p].pc = "done" /\ ~procs[p].raised) =>
             <<procs[p].url, procs[p].value>> \in received
    /\ (\A p \in Procs : procs[p].pc = "done") =>
          \A p \in Procs :
             procs[p].last =>
                files[get_cache_path(procs[p].url)] = procs[p].content

(***************************************************************************)
(* C19: html_to_markdown is idempotent on its own output: for every HTML   *)
(* input h, normalizing the normalized text again gives the same text,     *)
(* also when h holds the entities &lt; &gt; &amp; that the first pass      *)
(* turns into literal characters.                                          *)
(***************************************************************************)
C19_NormalizeIdempotent ==
    Len(norm) = 3 => norm[3] = norm[2]

(***************************************************************************)
(* C21: paging through a cached page is complete and terminates: for any   *)
(* max_length >= 1, the calls from start_index 0, each at the end_index of *)
(* the result before it while is_truncated holds, reach a result that is   *)
(* not truncated, and the content windows joined in call order are the     *)
(* whole normalized text, no character skipped or repeated.                *)
(***************************************************************************)
RECURSIVE Joined(_, _)
Joined(rs, n) ==
    IF n = 0 THEN <<>> ELSE Joined(rs, n - 1) \o rs[n].ret.v.content

\* the normalized text of the page a paging session reads
WholeText(url) == markdown_of[ReadText(files[get_cache_path(url)])]

\* every window so far succeeded and starts where the one before ended, and
\* the windows joined are the text up to the last end_index
PagesContiguous ==
    \A n \in 1..Len(reads) :
       /\ ~IsErrorDict(reads[n].ret)
       /\ reads[n].start_index = IF n = 1 THEN 0 ELSE reads[n - 1].ret.v.end_index
       /\ Joined(reads, n)
             = PySlice(WholeText(reads[1].url), 0, reads[n].ret.v.end_index)

PagingDone ==
    /\ reads # <<>>
    /\ ~reads[Len(reads)].ret.v.is_truncated
    /\ Joined(reads, Len(reads)) = WholeText(reads[1].url)

C21_PagingCompletes ==
    /\ []PagesContiguous
    /\ (reads # <<>>) ~> PagingDone

C21_Witness ==
    /\ PagingDone
    /\ Len(reads) >= 3
    /\ reads[1].max_length = 2

(***************************************************************************)
(* C22: a fetch that fails, on a network error or a status that is not     *)
(* 2xx, leaves the cache as it found it: no entry is created or modified,  *)
(* so the next fetch of the same URL sends a new request to the network    *)
(* and returns no cached failure or empty body.                            *)
(***************************************************************************)
\* the fetch asked the network and got no answer, or an answer whose status
\* is not 2xx
FetchFailed(f) ==
    /\ f.net # <<>>
    /\ ~(f.answered /\ 200 <= f.status_code /\ f.status_code < 300)

C22_FailedFetchLeavesCache ==
    \A k \in 1..Len(fetched) :
       FetchFailed(fetched[k]) =>
          /\ fetched[k].unchanged
          /\ (k < Len(fetched) /\ fetched[k + 1].url = fetched[k].url) =>
                /\ ~fetched[k + 1].cached
                /\ fetched[k + 1].net = <<fetched[k].url>>

\* what holds: a fetch that raised leaves the cache as it found it, and the
\* next fetch of the same URL asks the network again
RaisedFetchLeavesCache ==
    \A k \in 1..Len(fetched) :
       (fetched[k].raised /\ fetched[k].net # <<>>) =>
          /\ fetched[k].unchanged
          /\ (k < Len(fetched) /\ fetched[k + 1].url = fetched[k].url) =>
                /\ ~fetched[k + 1].cached
                /\ fetched[k + 1].net = <<fetched[k].url>>

====
